---- MODULE Spec2Model ----
(***************************************************************************)
(* Model of the wealth-report generator (src/main_program.py): the         *)
(* generate/evaluate loop of iterative_summary_improvement, the parsing of *)
(* the judge's output, the transcript file, and the script's loop over the *)
(* customers of the input file; the start of the program (config_parser.py *)
(* and the choice of the provider), the providers' invoke and the          *)
(* translation; and class SchemaParser (schema_parser.py).                 *)
(*                                                                         *)
(* The judge's output is modelled at word level: a line is a sequence of   *)
(* words separated by blanks, a text is a non-empty sequence of lines ("" *)
(* is one empty line, as "".split('\n') == ['']).  A draft is a sequence   *)
(* of pieces (tags, commas, report text) written one after the other.      *)
(* Optional values (Python's None, an unbound local, a missing file) are   *)
(* sequences of length 0 or 1.                                             *)
(***************************************************************************)
EXTENDS Integers, Sequences, FiniteSets, TLC

\* ------------------------------------------------------------- bounds
\* max_iterations ranges over 0..MaxIter; the judge answers MaxIter calls.
MaxIter == 2
\* score_threshold ranges over 0..MaxThreshold.
MaxThreshold == 6
\* Lines of the customer file after its header.
MaxCustomers == 2
\* Lines of a judge output in the parsing specification.
MaxLines == 2
\* Cells of a line of a customer block.
MaxColumns == 2
\* Calls of parseschema on one SchemaParser.
MaxParses == 2
MaxRuns == 2

\* ------------------------------------------------------------- values
None == <<>>
Some(x) == <<x>>

EmptyText == << <<>> >>

Min(S) == CHOOSE x \in S : \A y \in S : x <= y

\* Sequences over S of length lo..hi.
SeqsOf(S, lo, hi) == UNION { [1..n -> S] : n \in lo..hi }

\* ------------------------------------------------- clean thinking tags
\* re.sub(r'<think>.*?</think>', '', summary, flags=re.DOTALL): every
\* leftmost, shortest <think> ... </think> stretch is removed.
RECURSIVE CleanThink(_)
CleanThink(s) ==
    IF s = <<>> THEN <<>>
    ELSE IF Head(s) = "<think>" /\ \E j \in 2..Len(s) : s[j] = "</think>"
         THEN LET j == Min({ k \in 2..Len(s) : s[k] = "</think>" })
              IN  CleanThink(SubSeq(s, j + 1, Len(s)))
         ELSE <<Head(s)>> \o CleanThink(Tail(s))

\* re.sub(r'<thinking>,*?</thinking>', '', summary, flags=re.DOTALL): the
\* pattern is "<thinking>", then commas only, then "</thinking>".
RECURSIVE CleanThinking(_)
CleanThinking(s) ==
    IF s = <<>> THEN <<>>
    ELSE IF /\ Head(s) = "<thinking>"
            /\ \E j \in 2..Len(s) : /\ s[j] = "</thinking>"
                                    /\ \A k \in 2..(j - 1) : s[k] = ","
         THEN LET j == Min({ k \in 2..Len(s) : s[k] = "</thinking>" })
              IN  CleanThinking(SubSeq(s, j + 1, Len(s)))
         ELSE <<Head(s)>> \o CleanThinking(Tail(s))

\* summary = str(summary_result), then the two substitutions.
CleanSummary(raw) == CleanThinking(CleanThink(raw))

\* What summary_crew.kickoff() may answer.
RawDrafts ==
    { <<"r1">>,
      <<"r2">>,
      <<"<think>", "x", "</think>", "r1">>,
      <<"<thinking>", ",", "</thinking>", "r2">>,
      <<"<thinking>", "x", "</thinking>", "r1">> }

\* ------------------------------------------------------ judge's output
\* Words that end in a colon, and what precedes the colon.
ColonWords == { "Score:", "Feedback:" }
Stem(w) == IF w = "Score:" THEN "Score" ELSE IF w = "Feedback:" THEN "Feedback" ELSE w

\* int(word): the words Python reads as an integer, and their values.
IntValue == ("3" :> 3) @@ ("5" :> 5)
IsIntWord(w) == w \in DOMAIN IntValue

JudgeWords == { "Score:", "Feedback:", "3", "5", "4/5" }

HasWord(line, w) == \E i \in 1..Len(line) : line[i] = w
FirstIndex(line, W) == Min({ i \in 1..Len(line) : line[i] \in W })

\* line.split(':')[1].strip().split(): the words between the first colon
\* of the line and the next one (the stem of a second colon word is among
\* them).  Applied only to a line that holds a colon.
AfterFirstColon(line) ==
    LET p    == FirstIndex(line, ColonWords)
        rest == SubSeq(line, p + 1, Len(line))
    IN  IF \E i \in 1..Len(rest) : rest[i] \in ColonWords
        THEN LET q == FirstIndex(rest, ColonWords)
             IN  Append(SubSeq(rest, 1, q - 1), Stem(rest[q]))
        ELSE rest

IsScoreLine(line) == HasWord(line, "Score:")

\* The first try block: does it raise (IndexError, ValueError)?
ScoreParseFails(out) ==
    LET lines == SelectSeq(out, IsScoreLine)
    IN  \/ lines = <<>>
        \/ AfterFirstColon(lines[1]) = <<>>
        \/ ~IsIntWord(AfterFirstColon(lines[1])[1])

\* try: score = int(score_line.split(':')[1].strip().split()[0])
\* except: score = 1
ParseScore(out) ==
    IF ScoreParseFails(out) THEN 1
    ELSE IntValue[AfterFirstColon(SelectSeq(out, IsScoreLine)[1])[1]]

\* str.strip() of a text: leading and trailing empty lines go.
RECURSIVE StripLeading(_)
StripLeading(t) ==
    IF t = <<>> THEN <<>>
    ELSE IF Head(t) = <<>> THEN StripLeading(Tail(t)) ELSE t

RECURSIVE StripTrailing(_)
StripTrailing(t) ==
    IF t = <<>> THEN <<>>
    ELSE IF t[Len(t)] = <<>> THEN StripTrailing(SubSeq(t, 1, Len(t) - 1)) ELSE t

StripText(t) ==
    LET s == StripTrailing(StripLeading(t))
    IN  IF s = <<>> THEN EmptyText ELSE s

NoFeedbackText == << <<"No specific feedback provided">> >>

IsFeedbackLine(line) == HasWord(line, "Feedback:")

\* judge_output.find("Feedback:"); judge_output[feedback_start + 9:].strip()
ParseFeedback(out) ==
    IF \E i \in 1..Len(out) : IsFeedbackLine(out[i])
    THEN LET i == Min({ k \in 1..Len(out) : IsFeedbackLine(out[k]) })
             p == FirstIndex(out[i], { "Feedback:" })
         IN  StripText(<<SubSeq(out[i], p + 1, Len(out[i]))>>
                       \o SubSeq(out, i + 1, Len(out)))
    ELSE NoFeedbackText

\* Lines of up to two words, and two of three words.
JudgeLines ==
    { <<>> } \cup { <<w>> : w \in JudgeWords }
             \cup { <<v, w>> : v \in JudgeWords, w \in JudgeWords }
             \cup { <<"Score:", "5", "Feedback:">>, <<"Feedback:", "3", "4/5">> }

\* Every judge output of 1..MaxLines such lines.
BoundedJudgeOutputs == SeqsOf(JudgeLines, 1, MaxLines)

\* What judge_crew.kickoff() may answer in a run of the loop.
JudgeOutputs ==
    { << <<"Score:", "3">>, <<"Feedback:", "3">> >>,
      << <<"Score:", "5">> >>,
      << <<"4/5">> >>,
      << <<"Feedback:", "5">> >>,
      << <<"Score:", "4/5">> >> }

\* ------------------------------------------------------------- state
VARIABLES
    max_iterations,     \* cfg.max_iterations, read once at import
    score_threshold,    \* cfg.score, read once at import
    codecs,             \* encodings the interpreter can look up
    judgeScript,        \* the judge's answer to its 1st, 2nd, ... call
    customer_lines,     \* the lines of customer_file after the header
    mainPc,             \* the script's position ("off": imported, not run)
    lineNo,             \* next line of customer_file to read
    processed,          \* customers whose processing was started
    pc,                 \* position in iterative_summary_improvement
    customer_identity, customer_profile,
    iteration, score, feedback, previous_summary, summary, judge_output,
    files,              \* the run's files: <<>> absent, <<content>> present
    outputs,            \* outputs/<customer>: the files of the calls before
    raised,             \* the exception that left the function or script
    genCalls,           \* every generator call: its arguments and its draft
    judgeCalls,         \* every judge call: its arguments and its result
    cfgFile,            \* config.json: absent, or what it holds
    cfg,                \* the Config that ConfigParser.load returned
    llm_provider,       \* the class of main_program's llm_provider
    startPc,            \* position in the import of main_program
    llmCalls,           \* every request sent to a backend, and its outcome
    llmResult,          \* what invoke or translate_to_english returned
    schema,             \* SchemaParser.schema, in insertion order
    parserPc,           \* the last SchemaParser method that was called
    loadCall,           \* load_schema's file and the exception it caught
    parseCalls,         \* every parseschema call: its text, the catalog after
    csv_content,        \* the customer block at hand: header cells, row cells
    data_dict,          \* what parsecsv_data returned
    categorized,        \* what categorize_data returned
    formatted           \* what format_customer_data_section returned

vars == << max_iterations, score_threshold, codecs, judgeScript,
           customer_lines, mainPc, lineNo, processed,
           pc, customer_identity, customer_profile,
           iteration, score, feedback, previous_summary, summary, judge_output,
           files, outputs, raised, genCalls, judgeCalls,
           cfgFile, cfg, llm_provider, startPc, llmCalls, llmResult,
           schema, parserPc, loadCall, parseCalls, csv_content, data_dict,
           categorized, formatted >>

config == << max_iterations, score_threshold, codecs, judgeScript, customer_lines >>
mainVars == << mainPc, lineNo, processed >>
locals == << customer_identity, customer_profile, iteration, score, feedback,
             previous_summary, summary, judge_output >>
startup == << cfgFile, cfg, llm_provider, startPc, llmCalls, llmResult >>
parser == << schema, parserPc, loadCall, parseCalls, csv_content, data_dict,
             categorized, formatted >>
library == << startup, parser >>
loop == << pc, locals, files, outputs, genCalls, judgeCalls >>

\* open(..., encoding=name) looks the name up in the interpreter's codec
\* registry, which the installation and every imported package can extend.
\* A stock interpreter knows "utf-8" and has no codec named "utf-g": there
\* the open of the transcript's header raises LookupError.
StockCodecs == { "utf-8" }
CodecRegistries == { StockCodecs, StockCodecs \cup { "utf-g" } }

Customers == { "c1", "c2" }
Profiles == { "profile" }
\* A line of the customer file: blank, or a customer's row.
FileLines == { "" } \cup Customers

NoException == [type |-> "none", line |-> 0]
Exception(t, l) == [type |-> t, line |-> l]

\* The methods class SchemaParser defines.
SchemaParserMethods ==
    { "load_schema", "parseschema", "parsecsv_data", "categorize_data",
      "format_customer_data_section", "_format_value", "_generate_key_insights",
      "get_field_description", "get_field_category" }

\* One section of the transcript file.
Entry(k, i, sc, rep, jdg, prof) ==
    [kind |-> k, index |-> i, score |-> sc, report |-> rep, judge |-> jdg,
     profile |-> prof]

\* open(name, mode, encoding=enc): the exception it raises, or "none".
OpenError(name, mode, enc) ==
    IF enc \notin codecs THEN "LookupError"
    ELSE IF mode = "r" /\ files[name] = None THEN "FileNotFoundError"
    ELSE "none"

\* The file as open() leaves it: 'w' creates or truncates it and 'a'
\* creates it, also when the encoding lookup then fails.
Opened(name, mode) ==
    IF mode = "w" THEN <<>>
    ELSE IF mode = "a" /\ files[name] # None THEN files[name][1]
    ELSE <<>>

\* ----------------------------------------------------- configuration
\* The keys ConfigParser.load requires of config.json.
RequiredKeys ==
    { "OPENAI_API_BASE", "OPENAI_API_KEY", "OPENAI_MODEL",
      "DOUBAO_API_ENDPOINT", "DOUBAO_API_KEY", "DOUBAO_MODEL",
      "LLM_PROVIDER", "MAX_ITERATIONS", "SCORE", "INPUT_CUSTOMER_PROFILE_FILE" }

\* What config.json holds: whether it is JSON at all, the keys it has, and
\* the values of the four keys the program reads (a key that is absent has
\* a value here that nothing reads).  The two numbers are JSON integers.
ConfigData(js, keys, mi, sc, prov, path) ==
    [json |-> js, keys |-> keys, MAX_ITERATIONS |-> mi, SCORE |-> sc,
     LLM_PROVIDER |-> prov, INPUT_CUSTOMER_PROFILE_FILE |-> path]

KeySets ==
    { RequiredKeys, RequiredKeys \ { "MAX_ITERATIONS" },
      RequiredKeys \ { "SCORE", "INPUT_CUSTOMER_PROFILE_FILE" } }
ProviderNames == { "doubao", "DOUBAO", "openai", "OpenAI", "qwen" }
CustomerPaths == { "", "customers.csv" }

\* config.json: absent, or any of the bounded contents.
ConfigFiles ==
    { None } \cup
    { Some(ConfigData(js, keys, mi, sc, prov, path)) :
        js \in BOOLEAN, keys \in KeySets, mi \in -1..MaxIter,
        sc \in -1..MaxThreshold, prov \in ProviderNames, path \in CustomerPaths }

\* str.upper() on the provider names.
Upper ==
    [ n \in ProviderNames |->
        CASE n = "doubao" -> "DOUBAO"
          [] n = "DOUBAO" -> "DOUBAO"
          [] n = "openai" -> "OPENAI"
          [] n = "OpenAI" -> "OPENAI"
          [] n = "qwen" -> "QWEN" ]

\* Config(...) as load builds it: int() of a JSON integer is that integer.
Config(data) ==
    [llm_provider |-> data.LLM_PROVIDER,
     max_iterations |-> data.MAX_ITERATIONS,
     score |-> data.SCORE,
     input_customer_profile_file |-> data.INPUT_CUSTOMER_PROFILE_FILE]

\* The methods class Config defines besides those of @dataclass: none.
\* __post_init__ is written at the left margin, after the class body, so
\* it is a function of the module and the generated __init__ never calls it.
ConfigMethods == { }

\* The function __post_init__(self): the ValueError it raises, or "none".
PostInit(c) ==
    IF c.max_iterations <= 0 THEN "ValueError"
    ELSE IF c.score < 0 THEN "ValueError"
    ELSE IF c.input_customer_profile_file = "" THEN "ValueError"
    ELSE "none"

\* ConfigParser.load: the exception it raises (line of config_parser.py),
\* or NoException.  On a file that is not JSON the except clause looks up
\* json.JSoNDecodeError, which the module json does not have.
LoadError(file) ==
    IF file = None THEN Exception("FileNotFoundError", 59)
    ELSE IF ~file[1].json THEN Exception("AttributeError", 64)
    ELSE IF RequiredKeys \ file[1].keys # { } THEN Exception("KeyError", 87)
    ELSE IF "__post_init__" \in ConfigMethods /\ PostInit(Config(file[1])) # "none"
         THEN Exception(PostInit(Config(file[1])), 90)
    ELSE NoException

\* main_program.py lines 25 to 30.
ProviderClass(name) ==
    IF Upper[name] = "DOUBAO" THEN "DoubaoLLM"
    ELSE IF Upper[name] = "OPENAI" THEN "OpenAILLM"
    ELSE "DoubaoLLM"

\* The program was imported with a configuration that loaded: the state
\* in which iterative_summary_improvement and the script run.
Imported ==
    /\ cfgFile = Some(ConfigData(TRUE, RequiredKeys, max_iterations,
                                 score_threshold, "DOUBAO", "customers.csv"))
    /\ cfg = Some(Config(cfgFile[1]))
    /\ llm_provider = ProviderClass(cfg[1].llm_provider)
    /\ startPc = "ready"
    /\ llmCalls = <<>>
    /\ llmResult = None

\* No SchemaParser method was called.
NoParser ==
    /\ schema = <<>>
    /\ parserPc = "none"
    /\ loadCall = None
    /\ parseCalls = <<>>
    /\ csv_content = None
    /\ data_dict = None
    /\ categorized = None
    /\ formatted = None

TypeOK ==
    /\ max_iterations \in 0..MaxIter
    /\ score_threshold \in 0..MaxThreshold
    /\ codecs \in CodecRegistries
    /\ judgeScript \in [1..MaxIter -> JudgeOutputs]
    /\ mainPc \in { "off", "start", "next", "format", "call", "aborted", "eof" }
    /\ pc \in { "idle", "header", "while", "generate", "evaluate", "append",
                "perfect", "maxcheck", "save_cn", "raised" }
    /\ iteration \in 1..(MaxIter + 1)
    /\ Len(genCalls) <= MaxIter /\ Len(judgeCalls) <= MaxIter

DefaultScript == [i \in 1..MaxIter |-> << <<"Score:", "5">> >>]

\* After import: the configuration is read (ConfigParser.load validates
\* neither number: Config's __post_init__ is a function of the module, not
\* of the class, so MAX_ITERATIONS may be 0), and either the file runs as a
\* script over the customer file or a caller imported it and calls
\* iterative_summary_improvement itself.
Init ==
    /\ max_iterations \in 0..MaxIter
    /\ score_threshold \in 0..MaxThreshold
    /\ codecs \in CodecRegistries
    /\ \/ /\ mainPc = "start"
          /\ customer_lines \in SeqsOf(FileLines, 0, MaxCustomers)
          /\ judgeScript = DefaultScript
       \/ /\ mainPc = "off"
          /\ customer_lines = <<>>
          /\ judgeScript \in [1..MaxIter -> JudgeOutputs]
    /\ lineNo = 1
    /\ processed = <<>>
    /\ pc = "idle"
    /\ customer_identity = "" /\ customer_profile = ""
    /\ iteration = 1 /\ score = 0
    /\ feedback = None /\ previous_summary = None /\ summary = None
    /\ judge_output = None
    /\ files = [iterations |-> None, final_cn |-> None, final_en |-> None]
    /\ outputs = [c \in Customers |-> <<>>]
    /\ raised = NoException
    /\ genCalls = <<>>
    /\ judgeCalls = <<>>
    /\ Imported
    /\ NoParser

\* ------------------------------------------------------------ script
\* __main__: load_market_news(), open(customer_file), header = readline().
MainStart ==
    /\ mainPc = "start"
    /\ mainPc' = "next"
    /\ UNCHANGED << config, library, outputs, lineNo, processed, pc, locals, files, raised,
                    genCalls, judgeCalls >>

\* for line in f: line = line.strip(); if line: ...
MainNextLine ==
    /\ mainPc = "next"
    /\ IF lineNo > Len(customer_lines)
       THEN mainPc' = "eof" /\ UNCHANGED lineNo
       ELSE /\ lineNo' = lineNo + 1
            /\ mainPc' = IF customer_lines[lineNo] # "" THEN "format" ELSE "next"
    /\ UNCHANGED << config, library, outputs, processed, pc, locals, files, raised,
                    genCalls, judgeCalls >>

\* parser = SchemaParser(...); parser.format_customer_data_section(...),
\* whose first statement calls self.parse_csv_data; no handler encloses the
\* body of the for loop, so an exception ends the script.  The call of
\* iterative_summary_improvement follows the formatting.
MainFormat ==
    /\ mainPc = "format"
    /\ processed' = Append(processed, customer_lines[lineNo - 1])
    /\ IF "parse_csv_data" \in SchemaParserMethods
       THEN /\ mainPc' = "call"
            /\ pc' = "header"
            /\ customer_identity' = customer_lines[lineNo - 1]
            /\ customer_profile' = "profile"
            /\ UNCHANGED raised
       ELSE /\ mainPc' = "aborted"
            /\ raised' = Exception("AttributeError", 116)
            /\ UNCHANGED << pc, customer_identity, customer_profile >>
    /\ UNCHANGED << config, library, outputs, lineNo, iteration, score, feedback,
                    previous_summary, summary, judge_output, files,
                    genCalls, judgeCalls >>

\* ------------------------------------- iterative_summary_improvement
\* A caller that imported the module calls the function: iteration = 1,
\* score = 0, feedback = None, previous_summary = None, and the names.
Invoke(cid, profile) ==
    /\ mainPc = "off"
    /\ pc = "idle"
    /\ pc' = "header"
    /\ customer_identity' = cid
    /\ customer_profile' = profile
    /\ iteration' = 1
    /\ score' = 0
    /\ feedback' = None
    /\ previous_summary' = None
    /\ UNCHANGED << config, library, outputs, mainVars, summary, judge_output,
                    files, raised, genCalls, judgeCalls >>

\* The function's names keep what the call before left in them.
EntryLocals_KeptFromLastCall ==
    [iteration |-> iteration, score |-> score, feedback |-> feedback,
     previous_summary |-> previous_summary]

\* Lines 201 to 204: what every call binds its names to first.
EntryLocals ==
    [iteration |-> 1, score |-> 0, feedback |-> None, previous_summary |-> None]

\* The files of outputs/<customer> that calls have named so far.
StoredRuns ==
    UNION { { << c, k >> : k \in 1..Len(outputs[c]) } : c \in Customers }

\* The importer, having caught the exception of a call, calls the function
\* again.  save_dir is outputs/<customer_identity> and the file names
\* carry the minute of the call (lines 207 to 209): a call for the same
\* customer in the same minute names the files of the call before, and
\* any other call names files that do not exist yet.  summary and
\* judge_output are not bound before the loop binds them.
InvokeAgain(cid, profile, sameMinute) ==
    /\ mainPc = "off"
    /\ pc = "raised"
    /\ pc' = "header"
    /\ customer_identity' = cid
    /\ customer_profile' = profile
    /\ iteration' = EntryLocals.iteration
    /\ score' = EntryLocals.score
    /\ feedback' = EntryLocals.feedback
    /\ previous_summary' = EntryLocals.previous_summary
    /\ summary' = None
    /\ judge_output' = None
    /\ raised' = NoException
    /\ IF cid = customer_identity /\ sameMinute
       THEN UNCHANGED << files, outputs >>
       ELSE /\ Cardinality(StoredRuns) + 1 < MaxRuns
            /\ outputs' = [outputs EXCEPT ![customer_identity] = Append(@, files)]
            /\ files' = [iterations |-> None, final_cn |-> None, final_en |-> None]
    /\ UNCHANGED << config, library, mainVars, genCalls, judgeCalls >>

\* with open(save_dir+'/'+iteration_filename, 'w', encoding='utf-g') as f:
\* the heading and the customer data.
WriteHeader ==
    /\ pc = "header"
    /\ LET err == OpenError("iterations", "w", "utf-g")
       IN  IF err # "none"
           THEN /\ files' = [files EXCEPT !.iterations = Some(Opened("iterations", "w"))]
                /\ raised' = Exception(err, 214)
                /\ pc' = "raised"
           ELSE /\ files' = [files EXCEPT !.iterations =
                       Some(Append(Opened("iterations", "w"),
                                   Entry("HEADER", 0, 0, None, None, customer_profile)))]
                /\ pc' = "while"
                /\ UNCHANGED raised
    /\ UNCHANGED << config, library, outputs, mainVars, locals, genCalls, judgeCalls >>

\* The loop condition without its iteration budget.
LoopCondition_NoBudget == score < score_threshold

\* while score < score_threshold and iteration <= max_iterations:
LoopCondition == score < score_threshold /\ iteration <= max_iterations

WhileTest ==
    /\ pc = "while"
    /\ pc' = IF LoopCondition THEN "generate" ELSE "maxcheck"
    /\ UNCHANGED << config, library, outputs, mainVars, locals, files, raised, genCalls, judgeCalls >>

\* The generator is given a placeholder when there is no feedback yet.
GeneratorArguments_PlaceholderFeedback ==
    [iteration |-> iteration,
     feedback |-> IF feedback = None THEN Some(NoFeedbackText) ELSE feedback,
     previous_summary |-> previous_summary]

\* The arguments of create_summary_task (lines 225 to 231).
GeneratorArguments ==
    [iteration |-> iteration, feedback |-> feedback,
     previous_summary |-> previous_summary]

\* create_summary_task(... feedback, previous_summary, iteration), the
\* crew's kickoff, the cleaning, previous_summary = summary.
Generate(raw) ==
    /\ pc = "generate"
    /\ Len(genCalls) < MaxIter
    /\ genCalls' = Append(genCalls,
                          GeneratorArguments @@ [draft |-> CleanSummary(raw)])
    /\ summary' = Some(CleanSummary(raw))
    /\ previous_summary' = Some(CleanSummary(raw))
    /\ pc' = "evaluate"
    /\ UNCHANGED << config, library, outputs, mainVars, customer_identity, customer_profile,
                    iteration, score, feedback, judge_output, files, raised,
                    judgeCalls >>

\* The feedback when one try block holds both extractions: a failure of
\* the score's skips the feedback's, and the old feedback stays.
FeedbackOf_SharedTry(out, old) ==
    IF ScoreParseFails(out) THEN old ELSE Some(ParseFeedback(out))

\* The two try blocks that read the judge's output: the score, then the
\* feedback, each with its own handler.
ScoreOf(out) == ParseScore(out)
FeedbackOf(out, old) == Some(ParseFeedback(out))

\* create_judge_task(customer_profile, market_news, summary, iteration), the
\* crew's kickoff, and the parse of its output.
Evaluate ==
    /\ pc = "evaluate"
    /\ Len(judgeCalls) < MaxIter
    /\ LET out == judgeScript[Len(judgeCalls) + 1]
       IN  /\ judge_output' = Some(out)
           /\ score' = ScoreOf(out)
           /\ feedback' = FeedbackOf(out, feedback)
           /\ judgeCalls' = Append(judgeCalls,
                  [iteration |-> iteration, report |-> summary, output |-> out,
                   score |-> ScoreOf(out), feedback |-> FeedbackOf(out, feedback)])
    /\ pc' = "append"
    /\ UNCHANGED << config, library, outputs, mainVars, customer_identity, customer_profile,
                    iteration, previous_summary, summary, files, raised, genCalls >>

\* The section written under the index of the next iteration.
IterationEntries_NextIndex ==
    << Entry("ITERATION", iteration + 1, score, summary, judge_output, "") >>

\* What "Save iteration result" adds to the file.
IterationEntries == << Entry("ITERATION", iteration, score, summary, judge_output, "") >>

\* with open(..., 'a', encoding='utf-8') as f: ITERATION {iteration}, the
\* report and the judge's evaluation.
AppendIteration ==
    /\ pc = "append"
    /\ files' = [files EXCEPT !.iterations =
                    Some(Opened("iterations", "a") \o IterationEntries)]
    /\ pc' = "perfect"
    /\ UNCHANGED << config, library, outputs, mainVars, locals, raised, genCalls, judgeCalls >>

PerfectScore == 5

\* Whether the break that follows "if score >= 5: ..." is taken: it stands
\* at the level of the if, not inside it, so it is taken whatever the score.
BreakTaken(sc) == TRUE

\* if score >= 5: the closing section "Perfect score achieved!"; then the
\* break; "iteration += 1" is what follows the break.
PerfectCheck ==
    /\ pc = "perfect"
    /\ IF score >= PerfectScore
       THEN files' = [files EXCEPT !.iterations =
                Some(Append(Opened("iterations", "a"),
                            Entry("FINAL_PERFECT", 0, score, summary, None, "")))]
       ELSE UNCHANGED files
    /\ IF BreakTaken(score)
       THEN pc' = "maxcheck" /\ UNCHANGED iteration
       ELSE pc' = "while" /\ iteration' = iteration + 1
    /\ UNCHANGED << config, library, outputs, mainVars, customer_identity, customer_profile,
                    score, feedback, previous_summary, summary, judge_output,
                    raised, genCalls, judgeCalls >>

\* if iteration > max_iterations: the closing section "Maximum iterations
\* reached", whose last write reads summary (UnboundLocalError when no
\* cycle has assigned it; the lines written before it stay in the file).
MaxCheck ==
    /\ pc = "maxcheck"
    /\ IF iteration > max_iterations
       THEN /\ files' = [files EXCEPT !.iterations =
                    Some(Append(Opened("iterations", "a"),
                                Entry("FINAL_MAX", 0, score, summary, None, "")))]
            /\ IF summary = None
               THEN pc' = "raised" /\ raised' = Exception("UnboundLocalError", 310)
               ELSE pc' = "save_cn" /\ UNCHANGED raised
       ELSE /\ pc' = "save_cn"
            /\ UNCHANGED << files, raised >>
    /\ UNCHANGED << config, library, outputs, mainVars, locals, genCalls, judgeCalls >>

\* with open(f"{save_dir}/final report in traditional chinese ...",
\* encoding='utf-8') as f: f.write(...): the mode defaults to 'r', so the
\* open fails on a missing file and the write fails on an existing one.
\* Nothing after this statement (the translation, the English file, the
\* return) is reached.
SaveChinese ==
    /\ pc = "save_cn"
    /\ LET err == OpenError("final_cn", "r", "utf-8")
       IN  raised' = IF err # "none" THEN Exception(err, 315)
                     ELSE Exception("UnsupportedOperation", 316)
    /\ pc' = "raised"
    /\ UNCHANGED << config, library, outputs, mainVars, locals, files, genCalls, judgeCalls >>

Next ==
    \/ MainStart
    \/ MainNextLine
    \/ MainFormat
    \/ \E cid \in Customers, profile \in Profiles : Invoke(cid, profile)
    \/ WriteHeader
    \/ WhileTest
    \/ \E raw \in RawDrafts : Generate(raw)
    \/ Evaluate
    \/ AppendIteration
    \/ PerfectCheck
    \/ MaxCheck
    \/ SaveChinese

Spec == Init /\ [][Next]_vars

\* An importer that calls iterative_summary_improvement again and again;
\* the judge answers each call with a score and feedback, or with a 5.
RunsJudgeOutputs ==
    { << <<"Score:", "3">>, <<"Feedback:", "3">> >>, << <<"Score:", "5">> >> }

RunsInit ==
    /\ Init
    /\ mainPc = "off"
    /\ judgeScript \in [1..MaxIter -> RunsJudgeOutputs]

RunsNext ==
    \/ \E cid \in Customers, profile \in Profiles : Invoke(cid, profile)
    \/ \E cid \in Customers, profile \in Profiles, sameMinute \in BOOLEAN :
          InvokeAgain(cid, profile, sameMinute)
    \/ WriteHeader
    \/ WhileTest
    \/ \E raw \in RawDrafts : Generate(raw)
    \/ Evaluate
    \/ AppendIteration
    \/ PerfectCheck
    \/ MaxCheck
    \/ SaveChinese

RunsSpec == RunsInit /\ [][RunsNext]_vars

\* The state of a run of the loop just before its first evaluation, for
\* every bounded judge output: the parsing of the judge's output.
ParseInit ==
    /\ max_iterations = 1
    /\ score_threshold = 5
    /\ codecs = StockCodecs \cup { "utf-g" }
    /\ \E out \in BoundedJudgeOutputs : judgeScript = [i \in 1..MaxIter |-> out]
    /\ customer_lines = <<>>
    /\ mainPc = "off"
    /\ lineNo = 1
    /\ processed = <<>>
    /\ pc = "evaluate"
    /\ customer_identity = "c1" /\ customer_profile = "profile"
    /\ iteration = 1 /\ score = 0
    /\ feedback = None
    /\ previous_summary = Some(<<"r1">>) /\ summary = Some(<<"r1">>)
    /\ judge_output = None
    /\ files = [iterations |-> Some(<<Entry("HEADER", 0, 0, None, None, "profile")>>),
                final_cn |-> None, final_en |-> None]
    /\ outputs = [c \in Customers |-> <<>>]
    /\ raised = NoException
    /\ genCalls = << [iteration |-> 1, feedback |-> None, previous_summary |-> None,
                       draft |-> <<"r1">>] >>
    /\ judgeCalls = <<>>
    /\ Imported
    /\ NoParser

ParseNext == Evaluate

ParseSpec == ParseInit /\ [][ParseNext]_vars

\* ------------------------------------------------ what a run shows
\* The sections of the transcript file, in the order written.
Transcript == IF files.iterations = None THEN <<>> ELSE files.iterations[1]

IsIterationSection(e) == e.kind = "ITERATION"
IsClosingSection(e) == e.kind \in { "FINAL_PERFECT", "FINAL_MAX" }
IterationSections == SelectSeq(Transcript, IsIterationSection)
ClosingSections == SelectSeq(Transcript, IsClosingSection)

\* Generate/evaluate cycles executed: a cycle is a generator call and the
\* judge call on its draft.
Cycles == Len(judgeCalls)

\* The function is past the loop and past the block that follows it
\* (line 312 is reached, or an exception left the block).
LoopDone == pc = "save_cn" \/ (pc = "raised" /\ raised.line >= 310)

\* The function is over; in this program always by an exception.
RunOver == pc = "raised"

\* The reason the closing section of the transcript states.
TerminationReason ==
    IF \E i \in 1..Len(Transcript) : Transcript[i].kind = "FINAL_PERFECT" THEN "ScoreMet"
    ELSE IF \E i \in 1..Len(Transcript) : Transcript[i].kind = "FINAL_MAX" THEN "BudgetExhausted"
    ELSE "none"

\* The score the judge's k-th answer yields.
ScriptScore(k) == ParseScore(judgeScript[k])

\* Cycle k is the first whose score reaches the threshold.
FirstReaching(k) ==
    /\ ScriptScore(k) >= score_threshold
    /\ \A j \in 1..(k - 1) : ScriptScore(j) < score_threshold

\* ------------------------------------------------------------ claims

\* C1: with max_iterations >= 1 (and a threshold the initial score 0 does
\* not reach), if cycle k <= max_iterations is the first cycle whose score
\* is >= score_threshold, the loop runs exactly k cycles and ends with
\* reason ScoreMet.
C1_ScoreMetAtFirstReachingCycle ==
    (LoopDone /\ max_iterations >= 1 /\ score_threshold >= 1) =>
        \A k \in 1..max_iterations :
            FirstReaching(k) => (Cycles = k /\ TerminationReason = "ScoreMet")

\* C2: with max_iterations >= 1, if no cycle's score reaches the threshold,
\* the loop runs exactly max_iterations cycles and ends with reason
\* BudgetExhausted.
C2_BudgetExhaustedAfterMaxIterations ==
    (/\ LoopDone
     /\ max_iterations >= 1
     /\ \A k \in 1..max_iterations : ScriptScore(k) < score_threshold)
    => (Cycles = max_iterations /\ TerminationReason = "BudgetExhausted")

\* C3: in every state of a run at most max_iterations cycles have been
\* executed, and the transcript holds one ITERATION section per executed
\* cycle (the section of the cycle in progress is written at its end).
C3_CyclesBoundedAndTranscribed ==
    /\ Len(genCalls) <= max_iterations
    /\ Cycles <= Len(genCalls)
    /\ Len(IterationSections) = IF pc = "append" THEN Cycles - 1 ELSE Cycles

C3_Witness ==
    /\ pc = "maxcheck"
    /\ Cycles = 1 /\ max_iterations = 1
    /\ Len(IterationSections) = 1

\* C4: when the function is over after at least one cycle, the draft of the
\* last executed cycle is the FINAL REPORT of the transcript and the content
\* of the original-language file.
C4_FinalDraftIsLastDraft ==
    (RunOver /\ Cycles >= 1) =>
        /\ ClosingSections # <<>>
        /\ ClosingSections[Len(ClosingSections)].report = judgeCalls[Cycles].report
        /\ files.final_cn = judgeCalls[Cycles].report

\* C5: whenever the generator is called for a cycle k+1, its feedback
\* argument is the feedback extracted from the judge's output of cycle k.
\* (No run of this program calls the generator a second time.)
C5_FeedbackCarriedToNextCycle ==
    \A k \in 1..(Len(genCalls) - 1) :
        k <= Cycles => genCalls[k + 1].feedback = judgeCalls[k].feedback

\* C6: the ITERATION sections of the transcript carry the indices 1, 2,
\* 3, ... in that order, every cycle evaluated so far has its section
\* before the generator is called again, and the file only grows: each
\* write keeps what was there.
IsPrefix(a, b) == Len(a) <= Len(b) /\ SubSeq(b, 1, Len(a)) = a

C7_OneClosingSection ==
    (LoopDone /\ max_iterations >= 1) =>
        /\ Len(ClosingSections) = 1
        /\ IsClosingSection(Transcript[Len(Transcript)])
        /\ ClosingSections[1].report # None
        /\ TerminationReason =
               IF score >= score_threshold THEN "ScoreMet" ELSE "BudgetExhausted"

\* C8: a cycle whose judge output has no parseable score gets score 1 and
\* raises nothing, and with score_threshold > 1, when no output parses, the
\* loop goes on until max_iterations cycles have run.
C8_UnparseableScoreContinues ==
    /\ \A k \in 1..Cycles :
           ScoreParseFails(judgeCalls[k].output) => judgeCalls[k].score = 1
    /\ (/\ LoopDone
        /\ score_threshold > 1
        /\ max_iterations >= 1
        /\ \A k \in 1..max_iterations : ScoreParseFails(judgeScript[k]))
       => Cycles = max_iterations

\* C9: after the parse of a judge output, the feedback is the trimmed text
\* after the first "Feedback:" when the output holds one and the
\* placeholder when it does not, and the score is the integer after the
\* first colon of the first "Score:" line when there is one and 1
\* otherwise, in each of the four combinations.
HasFeedbackMarker(out) ==
    \E i \in 1..Len(out) : \E p \in 1..Len(out[i]) : out[i][p] = "Feedback:"

FirstFeedbackMarker(out, i, p) ==
    /\ out[i][p] = "Feedback:"
    /\ \A q \in 1..(p - 1) : out[i][q] # "Feedback:"
    /\ \A j \in 1..(i - 1) : \A q \in 1..Len(out[j]) : out[j][q] # "Feedback:"

TextAfter(out, i, p) ==
    <<SubSeq(out[i], p + 1, Len(out[i]))>> \o SubSeq(out, i + 1, Len(out))

\* t is r without its leading and trailing empty lines.
IsTrimOf(t, r) ==
    \E a \in 0..Len(r) : \E b \in 0..(Len(r) - a) :
        /\ \A k \in 1..a : r[k] = <<>>
        /\ \A k \in (Len(r) - b + 1)..Len(r) : r[k] = <<>>
        /\ LET mid == SubSeq(r, a + 1, Len(r) - b)
           IN  IF mid = <<>> THEN t = EmptyText
               ELSE t = mid /\ mid[1] # <<>> /\ mid[Len(mid)] # <<>>

C9_FeedbackAndScoreIndependent ==
    pc = "append" =>
        LET out == judge_output[1]
        IN  /\ feedback # None
            /\ HasFeedbackMarker(out) =>
                   \E i \in 1..Len(out) : \E p \in 1..Len(out[i]) :
                       /\ FirstFeedbackMarker(out, i, p)
                       /\ IsTrimOf(feedback[1], TextAfter(out, i, p))
            /\ ~HasFeedbackMarker(out) => feedback[1] = NoFeedbackText
            /\ ScoreParseFails(out) => score = 1
            /\ ~ScoreParseFails(out) =>
                   \E i \in 1..Len(out) :
                       /\ IsScoreLine(out[i])
                       /\ \A j \in 1..(i - 1) : ~IsScoreLine(out[j])
                       /\ score = IntValue[AfterFirstColon(out[i])[1]]

\* The score's extraction failed and the feedback's succeeded.
C9_Witness ==
    /\ pc = "append"
    /\ ScoreParseFails(judge_output[1])
    /\ HasFeedbackMarker(judge_output[1])
    /\ score = 1
    /\ feedback = Some(<< <<"3">> >>)

\* C10: when the script is over, every customer row of the file has been
\* processed, in file order.
IsCustomerRow(line) == line # ""

C10_EveryCustomerProcessed ==
    mainPc \in { "eof", "aborted" } =>
        processed = SelectSeq(customer_lines, IsCustomerRow)

\* ------------------------------------------------- start of the program
\* What a backend does with a request: it answers, it cannot be reached,
\* it answers with an error status, or its answer lacks the content.
BackendOutcomes == { "ok", "unreachable", "status", "malformed" }

\* The exception each failure raises inside invoke, per client library.
RequestsError ==
    [ o \in BackendOutcomes \ { "ok" } |->
        CASE o = "unreachable" -> "ConnectionError"
          [] o = "status" -> "HTTPError"
          [] o = "malformed" -> "KeyError" ]
OpenAIError ==
    [ o \in BackendOutcomes \ { "ok" } |->
        CASE o = "unreachable" -> "APIConnectionError"
          [] o = "status" -> "APIStatusError"
          [] o = "malformed" -> "IndexError" ]

Content == << "content" >>
FailText(e) == << "Fail to invoke DOUBAO api: ", e >>
TranslationFailed == << "Translation failed. Original Chinese text preserved." >>

Returned(text) == [raised |-> NoException, value |-> Some(text)]
Raised(t, l) == [raised |-> Exception(t, l), value |-> None]

\* DoubaoLLM.invoke: the request and the reading of the answer are inside
\* try, and except Exception returns the text of the failure.
DoubaoInvoke(outcome) ==
    IF outcome = "ok" THEN Returned(Content)
    ELSE Returned(FailText(RequestsError[outcome]))

\* OpenAILLM.invoke: no try; what the client raises leaves invoke (the
\* request is line 13 of openai_llm.py, the reading of the answer line 17).
OpenAIInvoke(outcome) ==
    IF outcome = "ok" THEN Returned(Content)
    ELSE Raised(OpenAIError[outcome], IF outcome = "malformed" THEN 17 ELSE 13)

InvokeOf(class, outcome) ==
    IF class = "OpenAILLM" THEN OpenAIInvoke(outcome) ELSE DoubaoInvoke(outcome)

\* translate_to_english: one invoke inside try; except Exception returns
\* the marker.
TranslateOf(class, outcome) ==
    IF InvokeOf(class, outcome).raised # NoException
    THEN Returned(TranslationFailed)
    ELSE InvokeOf(class, outcome)

\* The script does not run and iterative_summary_improvement is not
\* called: a stock interpreter, no file written, nothing raised.
NoRun ==
    /\ codecs = StockCodecs
    /\ judgeScript = DefaultScript
    /\ customer_lines = <<>>
    /\ mainPc = "off"
    /\ lineNo = 1
    /\ processed = <<>>
    /\ pc = "idle"
    /\ customer_identity = "" /\ customer_profile = ""
    /\ iteration = 1 /\ score = 0
    /\ feedback = None /\ previous_summary = None /\ summary = None
    /\ judge_output = None
    /\ files = [iterations |-> None, final_cn |-> None, final_en |-> None]
    /\ outputs = [c \in Customers |-> <<>>]
    /\ raised = NoException
    /\ genCalls = <<>>
    /\ judgeCalls = <<>>

\* Before the import: any config.json, nothing loaded, no global bound
\* (max_iterations and score_threshold hold 0 until line 20 binds them).
StartupInit ==
    /\ cfgFile \in ConfigFiles
    /\ cfg = None
    /\ llm_provider = "unbound"
    /\ startPc = "load"
    /\ llmCalls = <<>>
    /\ llmResult = None
    /\ max_iterations = 0
    /\ score_threshold = 0
    /\ NoRun
    /\ NoParser

\* main_program.py lines 14 and 15: get_config().get_config(), that is
\* ConfigParser.load().
LoadConfig ==
    /\ startPc = "load"
    /\ IF LoadError(cfgFile) # NoException
       THEN /\ raised' = LoadError(cfgFile)
            /\ cfg' = None
            /\ startPc' = "failed"
       ELSE /\ cfg' = Some(Config(cfgFile[1]))
            /\ startPc' = "init"
            /\ UNCHANGED raised
    /\ UNCHANGED << cfgFile, llm_provider, llmCalls, llmResult, config,
                    mainVars, loop, parser >>

\* main_program.py lines 18 to 30: the globals and the provider.
ModuleInit ==
    /\ startPc = "init"
    /\ max_iterations' = cfg[1].max_iterations
    /\ score_threshold' = cfg[1].score
    /\ llm_provider' = ProviderClass(cfg[1].llm_provider)
    /\ startPc' = "ready"
    /\ UNCHANGED << cfgFile, cfg, llmCalls, llmResult, codecs, judgeScript,
                    customer_lines, mainVars, loop, raised, parser >>

\* llm_provider.invoke(messages), called by the importer.
LlmInvoke(outcome) ==
    /\ startPc = "ready"
    /\ llmCalls' = Append(llmCalls, [class |-> llm_provider, outcome |-> outcome])
    /\ llmResult' = InvokeOf(llm_provider, outcome).value
    /\ raised' = InvokeOf(llm_provider, outcome).raised
    /\ startPc' = "invoked"
    /\ UNCHANGED << cfgFile, cfg, llm_provider, config, mainVars, loop, parser >>

\* translate_to_english(chinese_text), called by the importer.
Translate(outcome) ==
    /\ startPc = "ready"
    /\ llmCalls' = Append(llmCalls, [class |-> llm_provider, outcome |-> outcome])
    /\ llmResult' = TranslateOf(llm_provider, outcome).value
    /\ raised' = TranslateOf(llm_provider, outcome).raised
    /\ startPc' = "translated"
    /\ UNCHANGED << cfgFile, cfg, llm_provider, config, mainVars, loop, parser >>

StartupNext ==
    \/ LoadConfig
    \/ ModuleInit
    \/ (\E outcome \in BackendOutcomes : LlmInvoke(outcome))
    \/ (\E outcome \in BackendOutcomes : Translate(outcome))

StartupSpec == StartupInit /\ [][StartupNext]_vars

LastOutcome == llmCalls[Len(llmCalls)].outcome

\* C11: with either provider, an invoke whose backend request fails does
\* not raise: it returns a text that describes the failure.
C11_InvokeNeverRaises ==
    (startPc = "invoked" /\ LastOutcome # "ok") =>
        /\ raised = NoException
        /\ llmResult # None
        /\ \E e \in { RequestsError[o] : o \in BackendOutcomes \ { "ok" } }
                    \cup { OpenAIError[o] : o \in BackendOutcomes \ { "ok" } } :
              llmResult[1] = FailText(e)

\* C12: translate_to_english sends one request and does not raise, and
\* when the request fails, with either provider, it returns the marker
\* 'Translation failed. Original Chinese text preserved.'.
C12_TranslationFailureYieldsMarker ==
    startPc = "translated" =>
        /\ Len(llmCalls) = 1
        /\ raised = NoException
        /\ LastOutcome # "ok" => llmResult = Some(TranslationFailed)

\* C13: loading a config.json that lacks a required key, or whose
\* MAX_ITERATIONS is not positive, SCORE is negative or customer-file path
\* is empty, raises; load returns no Config with max_iterations <= 0 or
\* score < 0.
C13_InvalidConfigRejected ==
    startPc # "load" =>
        /\ \A c \in { cfgFile[i] : i \in 1..Len(cfgFile) } :
              ( \/ RequiredKeys \ c.keys # { }
                \/ c.MAX_ITERATIONS <= 0
                \/ c.SCORE < 0
                \/ c.INPUT_CUSTOMER_PROFILE_FILE = "" )
              => (cfg = None /\ raised # NoException /\ pc = "idle")
        /\ \A c \in { cfg[i] : i \in 1..Len(cfg) } :
              c.max_iterations > 0 /\ c.score >= 0

\* -------------------------------------------- after the loop, and the end
\* C14: a run whose loop has terminated, once it is over, has written the
\* two final files, the Chinese draft and its translation, and has called
\* the translator once; before the loop terminates neither file exists and
\* the translator has not been called.
C14_TwoFinalArtifactsAfterLoop ==
    /\ (RunOver /\ LoopDone /\ Cycles >= 1) =>
            /\ files.final_cn # None
            /\ files.final_en # None
            /\ Len(llmCalls) = 1
    /\ ~LoopDone =>
            /\ files.final_cn = None
            /\ files.final_en = None
            /\ llmCalls = <<>>

\* The loop was left: the statement after the while loop (line 304) was
\* reached.
Done == pc \in { "maxcheck", "save_cn" } \/ (pc = "raised" /\ raised.line >= 304)

\* C15: every run reaches Done: a run that is over has left the loop, and
\* has run at most max_iterations cycles.
C15_EveryRunReachesDone ==
    RunOver => (Done /\ Cycles <= max_iterations)

\* ------------------------------------------------------- schema_parser
\* A line of the schema file or of a customer block is a sequence of
\* tokens: the separators ":" and ",", the blank " " (a run of white
\* space), the multi-select marker, and words, which hold none of these.
\* The ASCII names below stand for the source's Chinese strings.
MultiSelectMarker == "[multi-select]"
\* category_order; the five names are also the keys of self.categories.
CategoryOrder ==
    << "basic-information", "interaction-preferences", "financial-data",
       "transaction-behavior", "risk-assessment" >>

Max(S) == CHOOSE x \in S : \A y \in S : x >= y

\* str.strip() of a line or of a part of one.
Strip(t) ==
    LET solid == { i \in 1..Len(t) : t[i] # " " }
    IN  IF solid = { } THEN <<>> ELSE SubSeq(t, Min(solid), Max(solid))

\* str.lstrip() and str.rstrip() of a line that is not blank.
LStrip(t) == SubSeq(t, Min({ i \in 1..Len(t) : t[i] # " " }), Len(t))
RStrip(t) == SubSeq(t, 1, Max({ i \in 1..Len(t) : t[i] # " " }))

\* t.split(sep, 1): the part before the first sep and the part after it.
BeforeFirst(t, sep) == SubSeq(t, 1, FirstIndex(t, { sep }) - 1)
AfterFirst(t, sep) == SubSeq(t, FirstIndex(t, { sep }) + 1, Len(t))

\* t.split(sep).
RECURSIVE Split(_, _)
Split(t, sep) ==
    IF ~HasWord(t, sep) THEN << t >>
    ELSE << BeforeFirst(t, sep) >> \o Split(AfterFirst(t, sep), sep)

\* sep.join(parts).
RECURSIVE Join(_, _)
Join(parts, sep) ==
    IF parts = <<>> THEN <<>>
    ELSE IF Len(parts) = 1 THEN parts[1]
    ELSE parts[1] \o << sep >> \o Join(Tail(parts), sep)

\* content.strip().split('\n') of a text given as its lines: the blank
\* lines at both ends go, and so do the blanks that begin the first line
\* left and end the last; a text of blank lines only is one empty line.
ContentLines(text) ==
    LET solid == { i \in 1..Len(text) : Strip(text[i]) # <<>> }
        f     == Min(solid)
        l     == Max(solid)
        cut(i) ==
            IF i = f /\ i = l THEN Strip(text[i])
            ELSE IF i = f THEN LStrip(text[i])
            ELSE IF i = l THEN RStrip(text[i])
            ELSE text[i]
    IN  IF solid = { } THEN << <<>> >>
        ELSE [ k \in 1..(l - f + 1) |-> cut(f + k - 1) ]

\* A dict, in insertion order: d[key] = val keeps the place of a key that
\* is there already.
HasKey(d, k) == \E i \in 1..Len(d) : d[i].key = k
Get(d, k) == d[CHOOSE i \in 1..Len(d) : d[i].key = k].val
Put(d, k, v) ==
    IF HasKey(d, k)
    THEN [ i \in 1..Len(d) |-> IF d[i].key = k THEN [key |-> k, val |-> v] ELSE d[i] ]
    ELSE Append(d, [key |-> k, val |-> v])
Keys(d) == { d[i].key : i \in 1..Len(d) }

Fieldschema(n, c, d, m) ==
    [name |-> n, category |-> c, description |-> d, is_multi_select |-> m]

\* The attributes of str that parseschema and parsecsv_data ask for, and
\* the one line 62 asks for: "strip" written with an acute i, which str
\* does not have.
StrMethods == { "strip", "split", "replace", "lower" }
Line62Attribute == "stri'p"

\* The lines parseschema takes an entry from: a colon, and a comma after
\* the first colon.
HasEntry(line) == HasWord(line, ":") /\ HasWord(Strip(AfterFirst(line, ":")), ",")
FieldName(line) == Strip(BeforeFirst(line, ":"))
Category(line) == Strip(BeforeFirst(Strip(AfterFirst(line, ":")), ","))
Description(line) == Strip(AfterFirst(Strip(AfterFirst(line, ":")), ","))
IsMultiSelect(line) == HasWord(Description(line), MultiSelectMarker)
\* description.replace(marker, '')
WithoutMarker(d) == SelectSeq(d, LAMBDA w : w # MultiSelectMarker)

\* parseschema from line i of lines on, into the catalog cat: the catalog
\* when it returns or raises, and the exception.
RECURSIVE ParseLinesFrom(_, _, _)
ParseLinesFrom(cat, lines, i) ==
    IF i > Len(lines) THEN [schema |-> cat, raised |-> NoException]
    ELSE IF ~HasEntry(lines[i]) THEN ParseLinesFrom(cat, lines, i + 1)
    ELSE IF IsMultiSelect(lines[i]) /\ Line62Attribute \notin StrMethods
         THEN [schema |-> cat, raised |-> Exception("AttributeError", 62)]
    ELSE ParseLinesFrom(
            Put(cat, FieldName(lines[i]),
                Fieldschema(FieldName(lines[i]), Category(lines[i]),
                            IF IsMultiSelect(lines[i])
                            THEN Strip(WithoutMarker(Description(lines[i])))
                            ELSE Description(lines[i]),
                            IsMultiSelect(lines[i]))),
            lines, i + 1)

Parseschema(cat, text) == ParseLinesFrom(cat, ContentLines(text), 1)

\* str.lower() of a word.
LowerWord(w) ==
    CASE w = "NaN" -> "nan"
      [] w = "NAN" -> "nan"
      [] w = "Y" -> "y"
      [] w = "Single" -> "single"
      [] w = "MS" -> "ms"
      [] OTHER -> w
Lower(t) == [ i \in 1..Len(t) |-> LowerWord(t[i]) ]

\* The value parsecsv_data stores for a cell of the row.
CsvValue_CaseSensitive(cell) ==
    IF Strip(cell) = <<>> \/ Strip(cell) = << "nan" >>
    THEN None ELSE Some(Strip(cell))
CsvValue(cell) ==
    IF Strip(cell) = <<>> \/ Lower(Strip(cell)) = << "nan" >>
    THEN None ELSE Some(Strip(cell))

\* The loop of parsecsv_data over the headers, from header i on.
RECURSIVE PairFrom(_, _, _, _)
PairFrom(d, headers, values, i) ==
    IF i > Len(headers) THEN d
    ELSE IF i <= Len(values)
         THEN PairFrom(Put(d, Strip(headers[i]), CsvValue(values[i])),
                       headers, values, i + 1)
    ELSE PairFrom(d, headers, values, i + 1)

Parsecsv_data(text) ==
    LET lines == ContentLines(text)
    IN  IF Len(lines) < 2 THEN <<>>
        ELSE PairFrom(<<>>, Split(lines[1], ","), Split(lines[2], ","), 1)

\* "\n".join([header, line]) of main_program.py line 386, for a block
\* given as the cells of its two lines.
CsvText(block) == << Join(block.header, ","), Join(block.row, ",") >>

\* The loop of categorize_data over data_dict.items(), from item i on.
RECURSIVE CategorizeFrom(_, _, _, _)
CategorizeFrom(categorized_data, cat, d, i) ==
    IF i > Len(d) THEN categorized_data
    ELSE IF ~HasKey(cat, d[i].key) THEN CategorizeFrom(categorized_data, cat, d, i + 1)
    ELSE LET field_schema == Get(cat, d[i].key)
             category == field_schema.category
             opened == IF HasKey(categorized_data, category) THEN categorized_data
                       ELSE Put(categorized_data, category, <<>>)
             info == [value |-> d[i].val,
                      description |-> field_schema.description,
                      is_multi_select |-> field_schema.is_multi_select]
         IN  CategorizeFrom(
                 Put(opened, category, Put(Get(opened, category), d[i].key, info)),
                 cat, d, i + 1)

Categorize_data(cat, d) == CategorizeFrom(<<>>, cat, d, 1)

\* value_mappings of _format_value (the labels are the source's Chinese).
ValueMappings ==
    [ w \in { "Y", "N", "Male", "Female", "Single", "Married" } |->
        CASE w = "Y" -> "shi(Yes)"
          [] w = "N" -> "fou(No)"
          [] w = "Male" -> "nanxing"
          [] w = "Female" -> "nuxing"
          [] w = "Single" -> "danshen"
          [] w = "Married" -> "yihun" ]

NotAvailable == << "N/A" >>
Format_value(value) ==
    IF value = None THEN NotAvailable
    ELSE IF Len(value[1]) = 1 /\ value[1][1] \in DOMAIN ValueMappings
         THEN value[1] \o << "(", ValueMappings[value[1][1]], ")" >>
    ELSE value[1]

\* Lines 124 to 143: the sections of the categories of category_order that
\* categorized_data holds, each with a line per field.
Sections(categorized_data) ==
    LET shown == SelectSeq(CategoryOrder, LAMBDA c : HasKey(categorized_data, << c >>))
        fields(c) == Get(categorized_data, << c >>)
    IN  [ k \in 1..Len(shown) |->
            [category |-> shown[k],
             lines |-> [ j \in 1..Len(fields(shown[k])) |->
                          [field_name |-> fields(shown[k])[j].key,
                           description |-> fields(shown[k])[j].val.description,
                           formatted_value |->
                               Format_value(fields(shown[k])[j].val.value)] ]] ]

\* Lines of a schema file: two fields, a second line for the first field,
\* a line with blanks around every part, a line with no colon, a line with
\* no comma after its colon, a multi-select field, and a line with more
\* separators in its description.
SchemaLineSet ==
    { << "age_group", ":", "basic-information", ",", "d1" >>,
      << "MS", ":", "risk-assessment", ",", "d2" >>,
      << "age_group", ":", "risk-assessment", ",", "d2" >>,
      << " ", "MS", " ", ":", " ", "basic-information", " ", ",", " ", "d1", " " >>,
      << "MS" >>,
      << "MS", ":", "basic-information" >>,
      << "child", ":", "other", ",", MultiSelectMarker, "d1" >>,
      << "child", ":", "other", ",", "d1", ",", "d2", ":", "d1" >> }

\* Schema texts of one or two lines.
SchemaTexts ==
    { << l >> : l \in SchemaLineSet } \cup
    { << l1, l2 >> : l1 \in SchemaLineSet, l2 \in SchemaLineSet }

\* The schema file a SchemaParser is constructed with: unreadable, or
\* readable with a text.
SchemaFiles ==
    { None,
      Some(<< << "age_group", ":", "basic-information", ",", "d1" >>, << "MS" >> >>),
      Some(<< << "child", ":", "other", ",", MultiSelectMarker, "d1" >> >>) }

\* Cells of the header line and of the row of a customer block.
HeaderCells == { << "age_group" >>, << "trb_range" >>, << " ", "MS", " " >>, <<>> }
RowCells ==
    { <<>>, << " " >>, << "35-44" >>, << "1M-5M" >>, << "NaN" >>,
      << " ", "nan" >>, << " ", "Y", " " >>, << "1M", " ", "5M" >> }
CsvBlocks ==
    [ header : SeqsOf(HeaderCells, 1, MaxColumns),
      row : SeqsOf(RowCells, 1, MaxColumns) ]

\* The customer blocks of the schema specification.
SampleBlocks ==
    { [header |-> << << "age_group" >>, << "MS" >>, << "trb_range" >> >>,
       row |-> << << "35-44" >>, << "Single" >>, << "1M-5M" >> >>],
      [header |-> << << "MS" >>, << "child" >> >>,
       row |-> << << "NaN" >>, << "Y" >> >>] }

\* SchemaParser(): no schema file.
NewParser ==
    /\ parserPc = "none"
    /\ parserPc' = "new"
    /\ UNCHANGED << schema, loadCall, parseCalls, csv_content, data_dict,
                    categorized, formatted, raised, config, startup, mainVars, loop >>

\* What load_schema leaves: the catalog, and the exception it caught.
\* Line 37 calls parse_schema, which the class does not define.
LoadSchemaOf(file) ==
    IF file = None
    THEN [schema |-> <<>>, raised |-> Exception("FileNotFoundError", 35)]
    ELSE IF "parse_schema" \notin SchemaParserMethods
         THEN [schema |-> <<>>, raised |-> Exception("AttributeError", 37)]
    ELSE Parseschema(<<>>, file[1])

\* SchemaParser(schema_file_path): load_schema, whose except Exception
\* prints what was raised and returns.
LoadSchema(file) ==
    /\ parserPc = "none"
    /\ schema' = LoadSchemaOf(file).schema
    /\ loadCall' = Some([file |-> file, caught |-> LoadSchemaOf(file).raised])
    /\ parserPc' = "new"
    /\ UNCHANGED << parseCalls, csv_content, data_dict, categorized, formatted,
                    raised, config, startup, mainVars, loop >>

\* parser.parseschema(text).
ParseSchema(text) ==
    /\ parserPc \in { "new", "parsed" }
    /\ Len(parseCalls) < MaxParses
    /\ schema' = Parseschema(schema, text).schema
    /\ raised' = Parseschema(schema, text).raised
    /\ parseCalls' = Append(parseCalls,
                            [text |-> text, before |-> schema,
                             after |-> Parseschema(schema, text).schema])
    /\ parserPc' = "parsed"
    /\ UNCHANGED << loadCall, csv_content, data_dict, categorized, formatted,
                    config, startup, mainVars, pc, locals, files, outputs, genCalls, judgeCalls >>

\* parser.parsecsv_data(csv_content).
ParseCsv ==
    /\ parserPc \in { "new", "parsed" }
    /\ csv_content # None
    /\ data_dict' = Some(Parsecsv_data(CsvText(csv_content[1])))
    /\ raised' = NoException
    /\ parserPc' = "row"
    /\ UNCHANGED << schema, loadCall, parseCalls, csv_content, categorized,
                    formatted, config, startup, mainVars, pc, locals, files,
                    outputs, genCalls, judgeCalls >>

\* parser.categorize_data(data_dict).
Categorize ==
    /\ parserPc = "row"
    /\ categorized' = Some(Categorize_data(schema, data_dict[1]))
    /\ parserPc' = "categorized"
    /\ UNCHANGED << schema, loadCall, parseCalls, csv_content, data_dict,
                    formatted, raised, config, startup, mainVars, loop >>

\* parser.format_customer_data_section(csv_content, False), as line 389
\* of main_program.py calls it.  Line 116 calls parse_csv_data, which the
\* class does not define.
Format ==
    /\ parserPc \in { "new", "parsed" }
    /\ csv_content # None
    /\ IF "parse_csv_data" \in SchemaParserMethods
       THEN /\ formatted' = Some(Sections(Categorize_data(schema,
                                  Parsecsv_data(CsvText(csv_content[1])))))
            /\ raised' = NoException
       ELSE /\ raised' = Exception("AttributeError", 116)
            /\ UNCHANGED formatted
    /\ parserPc' = "formatted"
    /\ UNCHANGED << schema, loadCall, parseCalls, csv_content, data_dict,
                    categorized, config, startup, mainVars, pc, locals, files,
                    outputs, genCalls, judgeCalls >>

\* A program that imports schema_parser and uses one SchemaParser.
SchemaInit ==
    /\ max_iterations = 1
    /\ score_threshold = 5
    /\ NoRun
    /\ Imported
    /\ schema = <<>>
    /\ parserPc = "none"
    /\ loadCall = None
    /\ parseCalls = <<>>
    /\ csv_content \in { Some(b) : b \in SampleBlocks }
    /\ data_dict = None
    /\ categorized = None
    /\ formatted = None

SchemaNext ==
    \/ NewParser
    \/ (\E file \in SchemaFiles : LoadSchema(file))
    \/ (\E text \in SchemaTexts : ParseSchema(text))
    \/ ParseCsv
    \/ Categorize
    \/ Format

SchemaSpec == SchemaInit /\ [][SchemaNext]_vars

\* parsecsv_data alone, on every bounded customer block.
CsvInit ==
    /\ max_iterations = 1
    /\ score_threshold = 5
    /\ NoRun
    /\ Imported
    /\ schema = <<>>
    /\ parserPc = "new"
    /\ loadCall = None
    /\ parseCalls = <<>>
    /\ csv_content \in { Some(b) : b \in CsvBlocks }
    /\ data_dict = None
    /\ categorized = None
    /\ formatted = None

CsvNext == ParseCsv

CsvSpec == CsvInit /\ [][CsvNext]_vars

\* --------------------------------------------- what SchemaParser shows
\* The entry a line of the schema file stands for.
EntryOfLine(line) ==
    Fieldschema(FieldName(line), Category(line),
                Strip(WithoutMarker(Description(line))), IsMultiSelect(line))

\* C16: constructing a SchemaParser on a schema file fails exactly when
\* the file cannot be read, and then it does fail; on a readable file the
\* lines with no colon, or no comma after the colon, are skipped and the
\* catalog holds the fields of the other lines.
C16_SchemaLoadFailsOnlyOnUnreadableSource ==
    (parserPc = "new" /\ loadCall # None) =>
        LET file == loadCall[1].file
        IN  /\ file = None => raised # NoException
            /\ file # None =>
                  /\ raised = NoException
                  /\ loadCall[1].caught = NoException
                  /\ Keys(schema) = { FieldName(file[1][k]) :
                                        k \in { i \in 1..Len(file[1]) : HasEntry(file[1][i]) } }

\* C17: parseschema gives the same catalog for the same text and the same
\* catalog before, parsing a text a second time changes nothing, no field
\* name is twice in the catalog, and the catalog's entry of a field name
\* is that of the last line of the text that defines the name.
C17_ParseDeterministicIdempotentLastWins ==
    parserPc = "parsed" =>
        LET n == Len(parseCalls)
            text == parseCalls[n].text
            defining == { k \in 1..Len(text) : HasEntry(text[k]) }
        IN  /\ \A i, j \in 1..Len(schema) : schema[i].key = schema[j].key => i = j
            /\ \A i, j \in 1..n :
                  (parseCalls[i].text = parseCalls[j].text
                   /\ parseCalls[i].before = parseCalls[j].before)
                  => parseCalls[i].after = parseCalls[j].after
            /\ (n >= 2 /\ parseCalls[n - 1].text = text)
                  => parseCalls[n].after = parseCalls[n - 1].after
            /\ \A k \in defining :
                  (\A j \in defining : j > k => FieldName(text[j]) # FieldName(text[k]))
                  => /\ HasKey(schema, FieldName(text[k]))
                     /\ Get(schema, FieldName(text[k])) = EntryOfLine(text[k])

\* A line of a block that strip() leaves empty: one cell of blanks.
IsBlankLine(cells) == Len(cells) = 1 /\ Strip(cells[1]) = <<>>
\* A cell that reads as no value: empty, or 'nan' in any case.
IsAbsentValue(cell) == Strip(cell) \in { <<>>, << "nan" >>, << "NaN" >>, << "NAN" >> }

\* C18: parsecsv_data of a block of a header line and a row pairs the i-th
\* header with the i-th value, trims both, stores no value for a cell that
\* is empty or 'nan' in any case, and stores every other value as it is.
C18_CsvPairsByPosition ==
    (parserPc = "row" /\ ~IsBlankLine(csv_content[1].header)
                      /\ ~IsBlankLine(csv_content[1].row)) =>
        LET h == csv_content[1].header
            r == csv_content[1].row
            n == Min({ Len(h), Len(r) })
            d == data_dict[1]
        IN  /\ Keys(d) = { Strip(h[i]) : i \in 1..n }
            /\ \A i \in 1..n :
                  (\A j \in (i + 1)..n : Strip(h[j]) # Strip(h[i]))
                  => Get(d, Strip(h[i])) =
                        IF IsAbsentValue(r[i]) THEN None ELSE Some(Strip(r[i]))

\* The example of the claim, a value with a blank inside and a 'NaN'.
C18_Witness ==
    /\ parserPc = "row"
    /\ \/ /\ csv_content[1] = [header |-> << << "age_group" >>, << "trb_range" >> >>,
                                 row |-> << << "35-44" >>, << "1M-5M" >> >>]
          /\ data_dict = Some(<< [key |-> << "age_group" >>, val |-> Some(<< "35-44" >>)],
                                 [key |-> << "trb_range" >>, val |-> Some(<< "1M-5M" >>)] >>)
       \/ /\ csv_content[1] = [header |-> << << " ", "MS", " " >>, << "age_group" >> >>,
                                 row |-> << << "NaN" >>, << "1M", " ", "5M" >> >>]
          /\ data_dict = Some(<< [key |-> << "MS" >>, val |-> None],
                                 [key |-> << "age_group" >>, val |-> Some(<< "1M", " ", "5M" >>)] >>)

\* C19: format_customer_data_section of a block whose header and row have
\* as many cells, on any catalog, does not raise, and every value it shows
\* is 'N/A', the raw value with its label, or the raw value.
C19_FormatNeverRaises ==
    (parserPc = "formatted"
     /\ Len(csv_content[1].header) = Len(csv_content[1].row)) =>
        /\ raised = NoException
        /\ formatted # None
        /\ \A a \in 1..Len(formatted[1]) : \A j \in 1..Len(formatted[1][a].lines) :
              LET shown == formatted[1][a].lines[j]
                  raw == Get(Parsecsv_data(CsvText(csv_content[1])), shown.field_name)
              IN  \/ raw = None /\ shown.formatted_value = NotAvailable
                  \/ raw # None /\ shown.formatted_value = raw[1]
                  \/ raw # None /\ \E w \in DOMAIN ValueMappings :
                        /\ raw[1] = << w >>
                        /\ shown.formatted_value = << w, "(", ValueMappings[w], ")" >>

\* The place of a category in category_order.
Place(c) == CHOOSE k \in 1..Len(CategoryOrder) : CategoryOrder[k] = c

\* C20: the sections of a formatted profile follow category_order, each
\* holds a field of the record, and a field that the catalog does not
\* name is in no section; the categories of categorize_data each hold a
\* field, and every field they hold is in the catalog and in the record.
C20_SectionsInFixedOrder ==
    /\ \A secs \in { formatted[i] : i \in 1..Len(formatted) } :
          /\ \A a, b \in 1..Len(secs) :
                a < b => Place(secs[a].category) < Place(secs[b].category)
          /\ \A a \in 1..Len(secs) :
                /\ secs[a].lines # <<>>
                /\ \A j \in 1..Len(secs[a].lines) :
                      HasKey(schema, secs[a].lines[j].field_name)
    /\ \A cats \in { categorized[i] : i \in 1..Len(categorized) } :
          \A a \in 1..Len(cats) :
            /\ cats[a].val # <<>>
            /\ \A j \in 1..Len(cats[a].val) :
                  /\ HasKey(schema, cats[a].val[j].key)
                  /\ HasKey(data_dict[1], cats[a].val[j].key)
                  /\ Get(schema, cats[a].val[j].key).category = cats[a].key

\* ------------------------------------------------- the cycles of a run
\* C21: with max_iterations >= 1 and any score_threshold >= 0, a run that
\* has left the loop has run at least one cycle, and has a draft.
C21_AtLeastOneCycle ==
    (Done /\ max_iterations >= 1 /\ score_threshold >= 0) =>
        (Cycles >= 1 /\ summary # None)

\* The integer a word begins with.
LeadingInteger == ("3" :> 3) @@ ("5" :> 5) @@ ("4/5" :> 4)

\* C24: when the word after "Score:" on the first line that holds
\* "Score:" begins with an integer n, the score after the parse is n,
\* also when the word goes on after the integer, as "4/5" does.
C24_LeadingIntegerIsScore ==
    pc = "append" =>
        LET out == judge_output[1]
            scoreLines == SelectSeq(out, IsScoreLine)
        IN  scoreLines # <<>> =>
                LET line == scoreLines[1]
                    p == FirstIndex(line, { "Score:" })
                IN  (p < Len(line) /\ line[p + 1] \in DOMAIN LeadingInteger)
                    => score = LeadingInteger[line[p + 1]]

Directory(c) ==
    outputs[c] \o (IF c = customer_identity /\ pc # "idle" THEN << files >> ELSE <<>>)

\* A call begins with iteration 1, score 0, no feedback and no draft.
StartsAfresh ==
    pc = "header" =>
        /\ iteration = 1 /\ score = 0
        /\ feedback = None /\ previous_summary = None

\* Past the header the transcript is the call's own: its header, then
\* sections that hold the call's own draft.
OwnTranscript ==
    (pc \notin { "idle", "header" } /\ Transcript # <<>>) =>
        /\ Transcript[1] = Entry("HEADER", 0, 0, None, None, customer_profile)
        /\ \A i \in 2..Len(Transcript) : Transcript[i].report = summary

\* No generator call is given a draft or feedback of a call before.
NothingCarriedOver ==
    \A k \in 1..Len(genCalls) :
        genCalls[k].iteration = 1 =>
            (genCalls[k].previous_summary = None /\ genCalls[k].feedback = None)

\* A step leaves the directories of the other customers and the three
\* globals as they are.
OthersUntouched ==
    /\ \A c \in Customers : c # customer_identity' => Directory(c)' = Directory(c)
    /\ max_iterations' = max_iterations
    /\ score_threshold' = score_threshold
    /\ llm_provider' = llm_provider

====
